---------------------------- MODULE Spec2Model ----------------------------
(***************************************************************************)
(* Model of src/main.rs: the snake game's state (Snake, Food, Game), the   *)
(* main loop (handle_input; update; draw; next_frame) and the clock and    *)
(* key collaborators it reads.                                             *)
(***************************************************************************)
EXTENDS Integers, Sequences, FiniteSets

VARIABLES
    body,          \* snake.body, front (index 1) = head
    direction,     \* snake.direction
    grow_next,     \* snake.grow_next
    food,          \* food.position
    score,         \* game.score
    game_over,     \* game.game_over
    last_update,   \* game.last_update, in milliseconds
    pc,            \* where the main loop stands
    current_time,  \* update's local current_time while randomize loops
    time,          \* the clock get_time() reads, in milliseconds
    pressed        \* the keys newly pressed this frame, in arrival order

vars == <<body, direction, grow_next, food, score, game_over, last_update,
          pc, current_time, time, pressed>>

game == <<body, direction, grow_next, food, score, game_over, last_update>>

-----------------------------------------------------------------------------
(* Program constants *)

WINDOW_WIDTH == 800
WINDOW_HEIGHT == 600
CELL_SIZE == 20
CELL_NUMBER_X == WINDOW_WIDTH \div CELL_SIZE
CELL_NUMBER_Y == WINDOW_HEIGHT \div CELL_SIZE
update_interval == 150

(* Bounds of the exploration *)

ClockStep == 75        \* the clock moves in steps of this many milliseconds
MaxClockSteps == 8     \* in Spec the clock stops after this many steps
MaxSteerTicks == 7     \* in SpecSteer the clock stops after this many intervals
MaxFillTicks == 1200   \* in SpecFill the clock stops after this many intervals
MaxSnakeLen == 5       \* in SpecSnake the snake grows to this many cells
MaxSnakeReach == 3     \* in SpecSnake the head stays this near its first cell
MaxKeys == 2           \* at most this many keys newly pressed in one frame

(* The cells the random generator is let to return in Spec.  Every x is in *)
(* 0..CELL_NUMBER_X-1 and every y in 0..CELL_NUMBER_Y-1.                    *)
DrawXs == {4, 6}
DrawYs == {9, 10}

-----------------------------------------------------------------------------
(* Position, Direction *)

Position(x, y) == [x |-> x, y |-> y]

Direction == {"Up", "Down", "Left", "Right"}

PollOrder == <<"Up", "Down", "Left", "Right">>

KeyCode == Direction \cup {"Space"}

Grid == {Position(x, y) : x \in 0 .. CELL_NUMBER_X - 1, y \in 0 .. CELL_NUMBER_Y - 1}

Cells(b) == {b[i] : i \in 1 .. Len(b)}

-----------------------------------------------------------------------------
(* Snake *)

SnakeNewBody == <<Position(5, 10), Position(4, 10), Position(3, 10)>>

\* A faulty variant of the match of Snake::update: Up moves down the screen
NewHeadUpIsDown(head, d) ==
    CASE d = "Up" -> Position(head.x, head.y + 1)
      [] d = "Down" -> Position(head.x, head.y + 1)
      [] d = "Left" -> Position(head.x - 1, head.y)
      [] d = "Right" -> Position(head.x + 1, head.y)

NewHead(head, d) ==
    CASE d = "Up" -> Position(head.x, head.y - 1)
      [] d = "Down" -> Position(head.x, head.y + 1)
      [] d = "Left" -> Position(head.x - 1, head.y)
      [] d = "Right" -> Position(head.x + 1, head.y)

PopBack(b) == SubSeq(b, 1, Len(b) - 1)

\* A faulty variant of Snake::update: the new head goes to the back
SnakeUpdateBodyPushBack(b, d, g) ==
    (IF ~g THEN PopBack(b) ELSE b) \o <<NewHead(b[1], d)>>

\* A faulty variant of Snake::update: the last cell is popped whatever grow_next
SnakeUpdateBodyAlwaysPops(b, d, g) == PopBack(<<NewHead(b[1], d)>> \o b)

\* Snake::update: the body after one advance
SnakeUpdateBody(b, d, g) ==
    LET pushed == <<NewHead(b[1], d)>> \o b
    IN  IF ~g THEN PopBack(pushed) ELSE pushed

\* A faulty variant of Snake::update: grow_next is not cleared
SnakeUpdateGrowKeeps(g) == g

\* Snake::update: grow_next after one advance
SnakeUpdateGrow(g) == IF ~g THEN g ELSE FALSE

\* A faulty variant of Snake::grow: the flag is not set
SnakeGrowNot == FALSE

\* Snake::grow: the value grow_next is given
SnakeGrow == TRUE

\* A faulty variant of change_direction: the arm (Right, Left) is missing
ChangeDirectionNoRightLeft(cur, new) ==
    CASE cur = "Up" /\ new = "Down" -> cur
      [] cur = "Down" /\ new = "Up" -> cur
      [] cur = "Left" /\ new = "Right" -> cur
      [] OTHER -> new

ChangeDirection(cur, new) ==
    CASE cur = "Up" /\ new = "Down" -> cur
      [] cur = "Down" /\ new = "Up" -> cur
      [] cur = "Left" /\ new = "Right" -> cur
      [] cur = "Right" /\ new = "Left" -> cur
      [] OTHER -> new

\* A faulty variant of check_wall_collision: the test head.x < 0 is missing
CheckWallCollisionNoLeft(b) ==
    LET head == b[1]
    IN  head.x >= CELL_NUMBER_X \/ head.y < 0 \/ head.y >= CELL_NUMBER_Y

CheckWallCollision(b) ==
    LET head == b[1]
    IN  head.x < 0 \/ head.x >= CELL_NUMBER_X \/ head.y < 0 \/ head.y >= CELL_NUMBER_Y

\* A faulty variant of check_self_collision: the skip(1) is missing
CheckSelfCollisionNoSkip(b) ==
    LET head == b[1]
    IN  \E i \in 1 .. Len(b) : b[i] = head

CheckSelfCollision(b) ==
    LET head == b[1]
    IN  \E i \in 2 .. Len(b) : b[i] = head

-----------------------------------------------------------------------------
(* Game *)

CheckGameOver(b, over) ==
    IF CheckWallCollision(b) \/ CheckSelfCollision(b) THEN TRUE ELSE over

\* A faulty variant of the key tests of handle_input: Left and Right are
\* tested before Up and Down
PolledDirectionSidesFirst(d, keys) ==
    LET d1 == IF "Left" \in keys THEN ChangeDirection(d, "Left") ELSE d
        d2 == IF "Right" \in keys THEN ChangeDirection(d1, "Right") ELSE d1
        d3 == IF "Up" \in keys THEN ChangeDirection(d2, "Up") ELSE d2
        d4 == IF "Down" \in keys THEN ChangeDirection(d3, "Down") ELSE d3
    IN  d4

\* The direction after the four is_key_pressed tests of handle_input
PolledDirection(d, keys) ==
    LET d1 == IF "Up" \in keys THEN ChangeDirection(d, "Up") ELSE d
        d2 == IF "Down" \in keys THEN ChangeDirection(d1, "Down") ELSE d1
        d3 == IF "Left" \in keys THEN ChangeDirection(d2, "Left") ELSE d2
        d4 == IF "Right" \in keys THEN ChangeDirection(d3, "Right") ELSE d3
    IN  d4

\* A faulty variant of the interval test: > for >=
TickDueStrict(now, last) == now - last > update_interval

TickDue(now, last) == now - last >= update_interval

\* A faulty variant of the guard of Game::update: no early return on game_over
UpdateSkipsNoReturn(over, now, last) == ~TickDue(now, last)

\* Game::update does nothing: the early return, or no interval has elapsed
UpdateSkips(over, now, last) == over \/ ~TickDue(now, last)

\* Game::check_food_collision: the test that the head is on the food
FoodCollision(b, f) == b[1] = f

\* A faulty variant of the test of Food::randomize: only the head is avoided
RandomizeAcceptsOffHead(p, b) == p # b[1]

\* Food::randomize: the test that ends the loop
RandomizeAccepts(p, b) == p \notin Cells(b)

\* A faulty variant of the restart: the fields are reset by hand and
\* grow_next is forgotten
GameNewKeepsGrowth(cells, now) ==
    /\ body' = SnakeNewBody
    /\ direction' = "Right"
    /\ grow_next' = grow_next
    /\ food' \in cells
    /\ score' = 0
    /\ game_over' = FALSE
    /\ last_update' = now

\* Game::new, with Food::new drawing its cell from cells and get_time() = now
GameNew(cells, now) ==
    /\ body' = SnakeNewBody
    /\ direction' = "Right"
    /\ grow_next' = FALSE
    /\ food' \in cells
    /\ score' = 0
    /\ game_over' = FALSE
    /\ last_update' = now

\* main, line 273: the game as constructed, the loop about to start
GameInit(cells) ==
    /\ body = SnakeNewBody
    /\ direction = "Right"
    /\ grow_next = FALSE
    /\ food \in cells
    /\ score = 0
    /\ game_over = FALSE
    /\ last_update = 0
    /\ pc = "handle_input"
    /\ current_time = 0
    /\ time = 0
    /\ pressed = <<>>

\* The clock moves on by d milliseconds, up to max
TimePasses(d, max) ==
    /\ time + d <= max
    /\ time' = time + d
    /\ UNCHANGED <<game, pc, current_time, pressed>>

Range(s) == {s[i] : i \in 1 .. Len(s)}

\* A faulty variant of the restart test: the game_over flag is not read
RestartPressedAnytime(over, keys) == "Space" \in keys

\* A faulty variant of the restart test: the game_over flag is negated
RestartPressedRunning(over, keys) == ~over /\ "Space" \in keys

\* Game::handle_input: the test that replaces the game by Game::new()
RestartPressed(over, keys) == over /\ "Space" \in keys

\* Game::handle_input with the keys of events newly pressed; Food::new draws
\* from cells when the game is restarted
HandleInput(events, cells) ==
    /\ pc = "handle_input"
    /\ pressed' = events
    /\ pc' = "update"
    /\ UNCHANGED <<current_time, time>>
    /\ IF RestartPressed(game_over, Range(events))
       THEN GameNew(cells, time)
       ELSE /\ direction' = PolledDirection(direction, Range(events))
            /\ UNCHANGED <<body, grow_next, food, score, game_over, last_update>>

\* Game::update up to the end of the frame, or up to the loop of randomize
Update ==
    /\ pc = "update"
    /\ pressed' = <<>>
    /\ UNCHANGED <<direction, time>>
    /\ IF UpdateSkips(game_over, time, last_update)
       THEN /\ pc' = "handle_input"
            /\ UNCHANGED <<body, grow_next, food, score, game_over, last_update,
                           current_time>>
       ELSE LET moved == SnakeUpdateBody(body, direction, grow_next)
            IN  /\ body' = moved
                /\ IF FoodCollision(moved, food)
                   THEN /\ grow_next' = SnakeGrow
                        /\ score' = score + 1
                        /\ pc' = "randomize"
                        /\ current_time' = time
                        /\ UNCHANGED <<food, game_over, last_update>>
                   ELSE /\ grow_next' = SnakeUpdateGrow(grow_next)
                        /\ game_over' = CheckGameOver(moved, game_over)
                        /\ last_update' = time
                        /\ pc' = "handle_input"
                        /\ UNCHANGED <<food, score, current_time>>

\* One turn of the loop of Food::randomize, drawing p; on leaving the loop the
\* rest of Game::update runs (check_game_over, last_update = current_time)
RandomizeDraw(p) ==
    /\ pc = "randomize"
    /\ food' = p
    /\ UNCHANGED <<body, direction, grow_next, score, time, pressed>>
    /\ IF RandomizeAccepts(p, body)
       THEN /\ game_over' = CheckGameOver(body, game_over)
            /\ last_update' = current_time
            /\ current_time' = 0
            /\ pc' = "handle_input"
       ELSE UNCHANGED <<game_over, last_update, current_time, pc>>

-----------------------------------------------------------------------------
(* Spec: the game under every sequence of at most MaxKeys distinct keys per *)
(* frame, the random cells DrawCells and MaxClockSteps steps of the clock.  *)

RECURSIVE SeqsUpTo(_, _)
SeqsUpTo(S, n) ==
    IF n = 0 THEN {<<>>}
    ELSE LET shorter == SeqsUpTo(S, n - 1)
         IN  shorter \cup {Append(s, k) : s \in {t \in shorter : Len(t) = n - 1},
                                           k \in S}

Distinct(s) == \A i, j \in 1 .. Len(s) : i # j => s[i] # s[j]

KeyEvents == {s \in SeqsUpTo(KeyCode, MaxKeys) : Distinct(s)}

DrawCells == {Position(x, y) : x \in DrawXs, y \in DrawYs}

Init == GameInit(DrawCells)

Next ==
    \/ TimePasses(ClockStep, MaxClockSteps * ClockStep)
    \/ \E events \in KeyEvents : HandleInput(events, DrawCells)
    \/ Update
    \/ \E p \in DrawCells : RandomizeDraw(p)

Spec == Init /\ [][Next]_vars

-----------------------------------------------------------------------------
(* SpecSteer: the game steered with one key per frame out of SteerKeys, for *)
(* MaxSteerTicks update intervals: long enough to reach the left wall.     *)

SteerEvents == {<<>>, <<"Up">>, <<"Left">>, <<"Space">>}

NextSteer ==
    \/ TimePasses(ClockStep, MaxSteerTicks * update_interval)
    \/ \E events \in SteerEvents : HandleInput(events, DrawCells)
    \/ Update
    \/ \E p \in DrawCells : RandomizeDraw(p)

SpecSteer == Init /\ [][NextSteer]_vars

-----------------------------------------------------------------------------
(* SpecFill: one play of the game on the full grid.  The snake is steered   *)
(* along a closed tour of the grid (row 0 rightwards, then the rows by      *)
(* turns leftwards and rightwards over columns 1.., column 0 back up), and  *)
(* the clock moves one interval per frame, and every random draw returns    *)
(* the cell right ahead of the head or the cell right behind it.            *)

TourDirection(p) ==
    CASE p.x = 0 /\ p.y > 0 -> "Up"
      [] p.y = 0 /\ p.x < CELL_NUMBER_X - 1 -> "Right"
      [] p.y % 2 = 0 /\ p.x < CELL_NUMBER_X - 1 -> "Right"
      [] p.y % 2 = 0 /\ p.x = CELL_NUMBER_X - 1 -> "Down"
      [] p.y % 2 = 1 /\ p.x > 1 -> "Left"
      [] p.y % 2 = 1 /\ p.x = 1 /\ p.y < CELL_NUMBER_Y - 1 -> "Down"
      [] OTHER -> "Left"

TourAhead(p) == NewHead(p, TourDirection(p))

InitFill == GameInit({TourAhead(SnakeNewBody[1])})

NextFill ==
    \/ /\ pc = "handle_input" /\ ~TickDue(time, last_update)
       /\ TimePasses(update_interval, MaxFillTicks * update_interval)
    \/ HandleInput(<<TourDirection(body[1])>>, {})
    \/ Update
    \/ \E p \in {TourAhead(body[1]), body[2]} : RandomizeDraw(p)

SpecFill == InitFill /\ [][NextFill]_vars

\* SpecFill with the loop of main never stopping and a fair random generator:
\* a frame that can be taken is taken, and the loop of randomize does not
\* draw the cell behind the head for ever when the cell ahead can be drawn
SpecFillFair ==
    /\ InitFill
    /\ [][NextFill]_vars
    /\ WF_vars(NextFill)
    /\ WF_vars(RandomizeDraw(TourAhead(body[1])))

\* C9 (as claimed): whenever randomize is running, some cell of the grid is
\* not occupied by the snake body, so a fair sequence of draws leaves the loop.
C9_FreeCellAtRelocate == pc = "randomize" => Grid \ Cells(body) # {}

-----------------------------------------------------------------------------
(* SpecSnake: the Snake alone, its methods called in any order.  Here pc    *)
(* names the last of Snake::new, grow and update that was called; the       *)
(* fields of Game other than the snake stay as they are.                    *)

InitSnake ==
    /\ body = SnakeNewBody
    /\ direction = "Right"
    /\ grow_next = FALSE
    /\ pc = "new"
    /\ food = Position(0, 0)
    /\ score = 0
    /\ game_over = FALSE
    /\ last_update = 0
    /\ current_time = 0
    /\ time = 0
    /\ pressed = <<>>

NotSnake == <<food, score, game_over, last_update, current_time, time, pressed>>

Reach(p) ==
    LET dx == p.x - SnakeNewBody[1].x
        dy == p.y - SnakeNewBody[1].y
    IN  (IF dx < 0 THEN -dx ELSE dx) + (IF dy < 0 THEN -dy ELSE dy)

\* snake.grow()
SnakeGrowCall ==
    /\ Len(body) < MaxSnakeLen
    /\ grow_next' = SnakeGrow
    /\ pc' = "grow"
    /\ UNCHANGED <<body, direction, NotSnake>>

\* snake.update()
SnakeUpdateCall ==
    /\ Reach(NewHead(body[1], direction)) <= MaxSnakeReach
    /\ body' = SnakeUpdateBody(body, direction, grow_next)
    /\ grow_next' = SnakeUpdateGrow(grow_next)
    /\ pc' = "update"
    /\ UNCHANGED <<direction, NotSnake>>

\* snake.change_direction(d)
SnakeChangeDirectionCall(d) ==
    /\ direction' = ChangeDirection(direction, d)
    /\ UNCHANGED <<body, grow_next, pc, NotSnake>>

NextSnake ==
    \/ SnakeGrowCall
    \/ SnakeUpdateCall
    \/ \E d \in Direction : SnakeChangeDirectionCall(d)

SpecSnake == InitSnake /\ [][NextSnake]_vars

-----------------------------------------------------------------------------
(* Properties *)

\* The steps of the main loop, told by the loop's position
InputStep == pc = "handle_input" /\ pc' = "update"
RestartStep == InputStep /\ game_over /\ "Space" \in Range(pressed')
AdvanceStep == pc = "update" /\ body' # body
TickEnds == \/ AdvanceStep /\ pc' = "handle_input"
            \/ pc = "randomize" /\ pc' = "handle_input"

HeadOutsideGrid(b) ==
    \/ b[1].x \notin 0 .. CELL_NUMBER_X - 1
    \/ b[1].y \notin 0 .. CELL_NUMBER_Y - 1

HeadOnBody(b) == b[1] \in {b[i] : i \in 2 .. Len(b)}

\* C1: game_over turns true exactly in the step that ends a tick whose
\* advanced head lies outside the grid or on a body cell of index >= 1 (here
\* >= 2, sequences start at 1), and in no other step.
C1_GameOverIffCollision ==
    [][(~game_over /\ game_over')
         <=> (TickEnds /\ ~game_over /\ (HeadOutsideGrid(body') \/ HeadOnBody(body')))]_vars

\* C1 happens: the snake has run its head out of the grid and the game is over
C1_Witness == game_over /\ HeadOutsideGrid(body) /\ ~HeadOnBody(body)

\* C2 (as claimed): once game_over is true, a step that is not a restart
\* changes no field of the game, the snake's direction included.
C2_GameOverFreezesAll ==
    [][(game_over /\ ~RestartStep) => UNCHANGED game]_vars

\* C2 (amended): once game_over is true, a step that is not a restart leaves
\* game_over true and changes neither body, grow_next, food, score nor
\* last_update; the direction alone still follows the directional keys.
C2_GameOverFreezesPlay ==
    [][(game_over /\ ~RestartStep)
         => UNCHANGED <<body, grow_next, food, score, game_over, last_update>>]_vars

\* C2 happens: the game is over, an interval has elapsed since, and a frame
\* with a directional key pressed has reached update
C2_Witness ==
    /\ game_over
    /\ pc = "update"
    /\ pressed # <<>>
    /\ "Space" \notin Range(pressed)
    /\ time - last_update >= update_interval

\* C3 (as claimed): a tick never moves the head onto the cell that was the
\* second body cell before the tick.
C3_NoReversal == [][AdvanceStep => body'[1] # body[2]]_vars

\* C4 (as claimed): between two operations of the game the food is on no
\* cell of the snake body, the initial state and the state after a restart
\* included.
C4_FoodOffSnake == pc # "randomize" => food \notin Cells(body)

\* C5: the restart step leaves score 0, game_over false and the snake of
\* Snake::new (body (5,10),(4,10),(3,10), heading Right, grow_next false),
\* whatever the game was before.
C5_RestartIsFresh ==
    [][RestartStep
         => /\ score' = 0
            /\ ~game_over'
            /\ body' = <<[x |-> 5, y |-> 10], [x |-> 4, y |-> 10], [x |-> 3, y |-> 10]>>
            /\ direction' = "Right"
            /\ ~grow_next']_vars

\* C5 happens: a restart has just replaced a game (the clock reading in
\* last_update is that of a second Game::new)
C5_Witness ==
    /\ pc = "update"
    /\ "Space" \in Range(pressed)
    /\ last_update = time
    /\ time > 0
    /\ body = SnakeNewBody
    /\ score = 0
    /\ ~game_over

\* b2 is b after exactly one advance: the old head is the second cell, the
\* new head is next to it, and the rest is the old body with or without its
\* last cell
Abs(n) == IF n < 0 THEN -n ELSE n
OneAdvance(b, b2) ==
    /\ Len(b2) \in {Len(b), Len(b) + 1}
    /\ SubSeq(b2, 2, Len(b2)) = SubSeq(b, 1, Len(b2) - 1)
    /\ Abs(b2[1].x - b[1].x) + Abs(b2[1].y - b[1].y) = 1

\* C6: update performs exactly one advance of the snake when game_over is
\* false and time - last_update >= update_interval, whatever the multiple
\* elapsed, and then last_update becomes the time update read; otherwise
\* update changes nothing of the game; no other step advances the snake or
\* sets last_update, but a restart.
C6_TickGating ==
    [][/\ (pc = "update" /\ pc' # "update")
            => IF ~game_over /\ time - last_update >= update_interval
               THEN /\ OneAdvance(body, body')
                    /\ pc' = "handle_input" => last_update' = time
                    /\ pc' = "randomize" => current_time' = time /\ last_update' = last_update
               ELSE UNCHANGED game
       /\ pc = "randomize"
            => /\ body' = body
               /\ last_update' = IF pc' = "handle_input" THEN current_time ELSE last_update
       /\ (pc = "handle_input" /\ ~RestartStep)
            => body' = body /\ last_update' = last_update]_vars

\* C6 happens: a tick has ended at a time two intervals or more after the
\* start, the snake one cell on
C6_Witness ==
    /\ pc = "handle_input"
    /\ last_update = time
    /\ time >= 2 * update_interval
    /\ body = <<Position(6, 10), Position(5, 10), Position(4, 10)>>
    /\ ~game_over

\* C7: on a tick, if the advanced head is on the food then score grows by
\* one, grow_next is set and randomize runs, which leaves the food off the
\* eaten cell and keeps score and grow_next; if not, score and food are
\* unchanged and grow_next is false; and an advance lengthens the body by one
\* exactly when grow_next was set before it.
C7_FoodEating ==
    [][/\ AdvanceStep
            => /\ IF body'[1] = food
                  THEN score' = score + 1 /\ grow_next' /\ pc' = "randomize"
                  ELSE score' = score /\ ~grow_next' /\ food' = food /\ pc' = "handle_input"
               /\ Len(body') = Len(body) + (IF grow_next THEN 1 ELSE 0)
       /\ (pc = "randomize" /\ pc' # "randomize")
            => food' # body[1] /\ score' = score /\ grow_next']_vars

\* C7 happens: the food was eaten one tick ago and the body is one longer
C7_Witness ==
    /\ pc = "handle_input"
    /\ score = 1
    /\ Len(body) = 4
    /\ ~grow_next
    /\ ~game_over

\* C8: when the loop of randomize ends, the food is on a cell of the grid
\* that is no cell of the snake body, the advanced head included.
C8_RelocatePostcondition ==
    [][(pc = "randomize" /\ pc' # "randomize")
         => /\ food' \in Grid
            /\ \A i \in 1 .. Len(body') : food' # body'[i]]_vars

\* C8 happens: randomize has returned for the second time, with a body of
\* four cells to avoid
C8_Witness ==
    /\ pc = "handle_input"
    /\ score = 2
    /\ Len(body) = 4
    /\ grow_next
    /\ food \notin Cells(body)

RECURSIVE ApplyInOrder(_, _)
ApplyInOrder(d, events) ==
    IF events = <<>> THEN d
    ELSE ApplyInOrder(ChangeDirection(d, Head(events)), Tail(events))

IsDirection(k) == k \in Direction

\* C10 (as claimed): after handle_input the direction is the one that
\* change_direction gives when applied to the pressed directional keys in
\* their arrival order.
C10_ArrivalOrder ==
    [][(InputStep /\ ~RestartStep)
         => direction' = ApplyInOrder(direction, SelectSeq(pressed', IsDirection))]_vars

\* C10 (amended): after handle_input the direction is the one that
\* change_direction gives when applied to the pressed directional keys in the
\* fixed order Up, Down, Left, Right, whatever their arrival order.
C10_PollOrder ==
    [][(InputStep /\ ~RestartStep)
         => LET inPressed(k) == k \in Range(pressed')
            IN  direction' = ApplyInOrder(direction, SelectSeq(PollOrder, inPressed))]_vars

\* C10 happens: Left arrived before Up while the snake headed Right, and the
\* direction is the one of the key tested last
C10_Witness ==
    /\ pc = "update"
    /\ pressed = <<"Left", "Up">>
    /\ direction = "Left"
    /\ body = SnakeNewBody

Opposite(d) ==
    CASE d = "Up" -> "Down"
      [] d = "Down" -> "Up"
      [] d = "Left" -> "Right"
      [] d = "Right" -> "Left"

\* C11: a frame whose only pressed key is a directional key k makes one call
\* of change_direction: if k is the opposite of the direction nothing of the
\* snake changes; if not, the direction becomes k and body and grow_next are
\* unchanged.
C11_DirectionGuard ==
    [][(InputStep /\ ~RestartStep /\ Len(pressed') = 1 /\ pressed'[1] \in Direction)
         => /\ direction' = IF pressed'[1] = Opposite(direction)
                            THEN direction ELSE pressed'[1]
            /\ body' = body
            /\ grow_next' = grow_next]_vars

\* C11 happens: Left was pressed alone while the snake headed Right, and the
\* snake still heads Right
C11_Witness ==
    /\ pc = "update"
    /\ pressed = <<"Left">>
    /\ direction = "Right"
    /\ ~game_over

\* The shift of one cell that each direction stands for
DX(d) == CASE d = "Left" -> -1 [] d = "Right" -> 1 [] OTHER -> 0
DY(d) == CASE d = "Up" -> -1 [] d = "Down" -> 1 [] OTHER -> 0

\* C12: an advance with grow_next false gives the head shifted one cell in
\* the direction, followed by the old body without its last cell, so the
\* length is kept; from (5,10),(4,10),(3,10) heading Right it gives
\* (6,10),(5,10),(4,10).
C12_Translation ==
    [][(AdvanceStep /\ ~grow_next)
         => /\ Len(body') = Len(body)
            /\ body'[1] = [x |-> body[1].x + DX(direction), y |-> body[1].y + DY(direction)]
            /\ \A i \in 2 .. Len(body') : body'[i] = body[i - 1]
            /\ (body = <<[x |-> 5, y |-> 10], [x |-> 4, y |-> 10], [x |-> 3, y |-> 10]>>
                  /\ direction = "Right")
                 => body' = <<[x |-> 6, y |-> 10], [x |-> 5, y |-> 10], [x |-> 4, y |-> 10]>>]_vars

\* C12 happens: the first tick of a game, heading Right, has moved the snake
\* one cell to the right
C12_Witness ==
    /\ body = <<Position(6, 10), Position(5, 10), Position(4, 10)>>
    /\ direction = "Right"
    /\ ~grow_next
    /\ score = 0
    /\ last_update = update_interval

\* C13: the advance that follows one or more calls of grow (with or without
\* calls of change_direction between) makes the body one cell longer, keeps
\* the old tail and the old cells behind the new head, and leaves grow_next
\* false; the advance that follows an advance keeps the length.
C13_DeferredGrowth ==
    [][(body' # body)
         => /\ pc = "grow"
                 => /\ Len(body') = Len(body) + 1
                    /\ body'[Len(body')] = body[Len(body)]
                    /\ \A i \in 1 .. Len(body) : body'[i + 1] = body[i]
            /\ pc \in {"new", "update"} => Len(body') = Len(body)
            /\ ~grow_next']_vars

\* C13 happens: grow, then an advance that grew, then an advance that did not
C13_Witness ==
    /\ pc = "update"
    /\ Len(body) = 4
    /\ ~grow_next
    /\ body[1] = Position(7, 10)
    /\ body[4] = Position(4, 10)

\* C14: no step lowers score except a restart, which sets it to 0; every
\* other step keeps score or adds 1 to it.
C14_ScoreMonotone ==
    [][/\ score' < score => (RestartStep /\ score' = 0)
       /\ ~RestartStep => score' \in {score, score + 1}]_vars

\* C14 happens: a game that lasted two ticks or more, enough to score and to
\* end, has been restarted on Space and its score is 0 again
C14_Witness ==
    /\ pc = "update"
    /\ "Space" \in Range(pressed)
    /\ ~game_over
    /\ score = 0
    /\ body = SnakeNewBody
    /\ last_update = time
    /\ time >= 2 * update_interval

\* C15: the body is never empty and every two consecutive cells of it are at
\* Manhattan distance 1, between frames and within a tick alike.
C15_BodyShape ==
    /\ Len(body) >= 1
    /\ \A i \in 1 .. Len(body) - 1 :
          Abs(body[i].x - body[i + 1].x) + Abs(body[i].y - body[i + 1].y) = 1

\* C15 happens: the snake has turned and has grown by one cell
C15_Witness == Len(body) = 4 /\ body[1].y # body[4].y /\ body[1].x # body[4].x

\* C16: an input step taken while game_over is false with Space pressed
\* changes neither body, grow_next, food, score, game_over nor last_update;
\* direction changes only to a direction key pressed with it, so Space alone
\* changes nothing of the game.
C16_SpaceWhileRunning ==
    [][(InputStep /\ ~game_over /\ "Space" \in Range(pressed'))
         => /\ UNCHANGED <<body, grow_next, food, score, game_over, last_update>>
            /\ direction' # direction => direction' \in Range(pressed')
            /\ pressed' = <<"Space">> => UNCHANGED game]_vars

\* C16 happens: Space alone was pressed in a running game that has scored
C16_Witness ==
    /\ pc = "update"
    /\ pressed = <<"Space">>
    /\ ~game_over
    /\ score = 1
    /\ body # SnakeNewBody

\* C17: the length of the body, plus 1 when grow_next is set, is 3 + score.
C17_LengthAccounting ==
    Len(body) + (IF grow_next THEN 1 ELSE 0) = Len(SnakeNewBody) + score

\* C17 happens: two foods eaten and both cells grown
C17_Witness == score = 2 /\ Len(body) = 5 /\ ~grow_next

\* C18: between the frames of a game that is not over, every body cell lies
\* in the grid and no cell occurs twice in the body; so between frames a head
\* outside the grid or a repeated cell is seen only with game_over true.
C18_RunningIsValid ==
    (~game_over /\ pc # "randomize")
      => /\ Cells(body) \subseteq Grid
         /\ \A i, j \in 1 .. Len(body) : body[i] = body[j] => i = j

\* C18 happens: the game is running with the head in the leftmost column
C18_Witness ==
    /\ ~game_over
    /\ pc = "handle_input"
    /\ body[1].x = 0
    /\ direction = "Left"

NoDirectionKey == Range(pressed) \cap Direction = {}

\* C19 (as claimed): from every state of a running game after which no
\* direction key is pressed any more, the loop of main going on, game_over
\* becomes true at some later time.
C19_InevitableGameOver ==
    []((~game_over /\ []NoDirectionKey) => <>game_over)

=============================================================================
